---------------------------- MODULE Spec2Model ----------------------------
(***************************************************************************)
(* Model of the trading-signal text extraction engine                      *)
(* (src/signal_parser.py: SignalParser).                                   *)
(*                                                                         *)
(* A Python str is a sequence of one-character strings.  None is the       *)
(* one-element sequence NoneVal, which no text equals.  A dict is a        *)
(* function whose DOMAIN is its key set.  re.search is modelled by a       *)
(* backtracking matcher over patterns given as item sequences, with        *)
(* Python's leftmost-start, greedy, first-alternative-first semantics.     *)
(***************************************************************************)
EXTENDS Integers, Sequences, FiniteSets, TLC

(***************************************************************************)
(* Characters and str methods                                              *)
(***************************************************************************)
UpperSeq == << "A","B","C","D","E","F","G","H","I","J","K","L","M",
               "N","O","P","Q","R","S","T","U","V","W","X","Y","Z" >>
LowerSeq == << "a","b","c","d","e","f","g","h","i","j","k","l","m",
               "n","o","p","q","r","s","t","u","v","w","x","y","z" >>
UpperSet == { UpperSeq[i] : i \in DOMAIN UpperSeq }
LowerSet == { LowerSeq[i] : i \in DOMAIN LowerSeq }
Alpha    == UpperSet \cup LowerSet
Digit    == { "0","1","2","3","4","5","6","7","8","9" }
\* \s and the characters str.strip() removes
Space    == { " ", "\n", "\r", "\t" }
\* \w
Word     == Alpha \cup Digit \cup { "_" }

UpMap  == [ c \in LowerSet |-> UpperSeq[CHOOSE i \in DOMAIN LowerSeq : LowerSeq[i] = c] ]
LowMap == [ c \in UpperSet |-> LowerSeq[CHOOSE i \in DOMAIN UpperSeq : UpperSeq[i] = c] ]

UpperCh(c) == IF c \in LowerSet THEN UpMap[c] ELSE c
LowerCh(c) == IF c \in UpperSet THEN LowMap[c] ELSE c

\* str.upper(), str.lower()
Upper(s) == [ i \in DOMAIN s |-> UpperCh(s[i]) ]
Lower(s) == [ i \in DOMAIN s |-> LowerCh(s[i]) ]

\* str.isalpha(): non-empty and letters only
IsAlpha(s) == Len(s) > 0 /\ \A i \in DOMAIN s : s[i] \in Alpha

\* None
NoneVal == << "None" >>

\* Python truthiness of an Optional[str]: None and "" are falsy
Truthy(v) == v # NoneVal /\ v # << >>

RECURSIVE LStripFrom(_, _)
LStripFrom(s, i) ==
    IF i > Len(s) THEN i
    ELSE IF s[i] \in Space THEN LStripFrom(s, i + 1) ELSE i

RECURSIVE RStripFrom(_, _)
RStripFrom(s, j) ==
    IF j < 1 THEN j
    ELSE IF s[j] \in Space THEN RStripFrom(s, j - 1) ELSE j

\* str.strip()
Strip(s) == SubSeq(s, LStripFrom(s, 1), RStripFrom(s, Len(s)))

\* the "in" operator on two strs
Contains(hay, needle) ==
    \E i \in 1 .. Len(hay) - Len(needle) + 1 :
        SubSeq(hay, i, i + Len(needle) - 1) = needle

\* str.replace(old, new): non-overlapping occurrences, left to right, one pass
RECURSIVE ReplaceFrom(_, _, _, _)
ReplaceFrom(s, old, new, i) ==
    IF i > Len(s) THEN << >>
    ELSE IF i + Len(old) - 1 <= Len(s) /\ SubSeq(s, i, i + Len(old) - 1) = old
         THEN new \o ReplaceFrom(s, old, new, i + Len(old))
         ELSE << s[i] >> \o ReplaceFrom(s, old, new, i + 1)

Replace(s, old, new) == ReplaceFrom(s, old, new, 1)

\* str.split('\n'): the lines of a text, at least one
RECURSIVE SplitFrom(_, _, _)
SplitFrom(s, i, start) ==
    IF i > Len(s) THEN << SubSeq(s, start, Len(s)) >>
    ELSE IF s[i] = "\n"
         THEN << SubSeq(s, start, i - 1) >> \o SplitFrom(s, i + 1, i + 1)
         ELSE SplitFrom(s, i + 1, start)

SplitLines(s) == SplitFrom(s, 1, 1)

\* list.index(x): the first position of x, 0 when absent (a ValueError)
RECURSIVE IndexFrom(_, _, _)
IndexFrom(lst, x, i) ==
    IF i > Len(lst) THEN 0
    ELSE IF lst[i] = x THEN i ELSE IndexFrom(lst, x, i + 1)

ListIndex(lst, x) == IndexFrom(lst, x, 1)

(***************************************************************************)
(* Regular expressions: a pattern is a sequence of items.                  *)
(*   rep:  a character class (cls, or its complement when neg) repeated    *)
(*         lo..hi times, greedy; hi = 0 is "no upper limit"                *)
(*   alt:  an alternation of literals, tried in order                      *)
(*   loop: a starred group of items, greedy; only ever the last item       *)
(* All literals are compiled for re.IGNORECASE.                            *)
(***************************************************************************)
Rep(c, lo, hi) == [ kind |-> "rep", cls |-> c, neg |-> FALSE, lo |-> lo, hi |-> hi ]
One(c)   == << Rep(c, 1, 1) >>
Opt(c)   == << Rep(c, 0, 1) >>
Star(c)  == << Rep(c, 0, 0) >>
Plus(c)  == << Rep(c, 1, 0) >>
\* (.+): any character but the newline
DotPlus  == << [ kind |-> "rep", cls |-> { "\n" }, neg |-> TRUE, lo |-> 1, hi |-> 0 ] >>
\* a literal, case-insensitive
Lit(s)   == [ i \in DOMAIN s |-> Rep({ UpperCh(s[i]), LowerCh(s[i]) }, 1, 1) ]
Alt(ws)  == << [ kind |-> "alt", alts |-> ws ] >>
Loop(p)  == << [ kind |-> "loop", sub |-> p ] >>

InClass(it, c) == (c \in it.cls) # it.neg

\* how many characters from pos on are in the item's class, at most cap
RECURSIVE RunLen(_, _, _, _)
RunLen(it, text, pos, cap) ==
    IF cap = 0 \/ pos > Len(text) THEN 0
    ELSE IF InClass(it, text[pos]) THEN 1 + RunLen(it, text, pos + 1, cap - 1)
    ELSE 0

LitAt(text, pos, w) ==
    /\ pos + Len(w) - 1 <= Len(text)
    /\ \A i \in DOMAIN w : UpperCh(text[pos + i - 1]) = UpperCh(w[i])

\* The preferred match of items k.. at pos: the start position of every item
\* from k on followed by the end of the match, or << >> when there is none.
RECURSIVE MatchFrom(_, _, _, _)
RECURSIVE TryReps(_, _, _, _, _)
RECURSIVE TryAlts(_, _, _, _, _)
RECURSIVE LoopEnd(_, _, _)

MatchFrom(items, k, text, pos) ==
    IF k > Len(items) THEN << pos >>
    ELSE LET it == items[k] IN
         CASE it.kind = "rep" ->
                TryReps(items, k, text, pos,
                        RunLen(it, text, pos, IF it.hi = 0 THEN Len(text) ELSE it.hi))
           [] it.kind = "alt" -> TryAlts(items, k, text, pos, 1)
           [] it.kind = "loop" -> << pos, LoopEnd(it.sub, text, pos) >>

\* greedy: the longest run first, then shorter ones down to lo
TryReps(items, k, text, pos, n) ==
    IF n < items[k].lo THEN << >>
    ELSE LET r == MatchFrom(items, k + 1, text, pos + n) IN
         IF r # << >> THEN << pos >> \o r
         ELSE TryReps(items, k, text, pos, n - 1)

TryAlts(items, k, text, pos, a) ==
    IF a > Len(items[k].alts) THEN << >>
    ELSE LET w == items[k].alts[a]
             r == IF LitAt(text, pos, w)
                  THEN MatchFrom(items, k + 1, text, pos + Len(w))
                  ELSE << >>
         IN IF r # << >> THEN << pos >> \o r
            ELSE TryAlts(items, k, text, pos, a + 1)

\* a starred group closing the pattern: iterate while the group matches
LoopEnd(sub, text, pos) ==
    LET r == MatchFrom(sub, 1, text, pos) IN
    IF r = << >> \/ r[Len(r)] = pos THEN pos
    ELSE LoopEnd(sub, text, r[Len(r)])

\* the least element of a non-empty set of positions
Least(S) == CHOOSE p \in S : \A q \in S : p <= q

\* the match at the leftmost of the start positions where there is one
MatchAtFirst(items, text, starts) ==
    IF starts = {} THEN << >> ELSE MatchFrom(items, 1, text, Least(starts))

\* re.search from pos on: the match at the leftmost start position
SearchFrom(items, text, pos) ==
    MatchAtFirst(items, text,
                 { p \in pos .. Len(text) + 1 : MatchFrom(items, 1, text, p) # << >> })

\* A compiled pattern: its items and the items group 1 spans (gs..ge).
Pat(items, gs, ge) == [ items |-> items, gs |-> gs, ge |-> ge ]

\* match.group(1) of the match r of pattern p; NoneVal when there is no match
GroupOf(p, text, r) ==
    IF r = << >> THEN NoneVal
    ELSE SubSeq(text, r[p.gs], r[p.ge + 1] - 1)

\* match.group(1) of re.search(p, text, re.IGNORECASE)
Group1(p, text) == GroupOf(p, text, SearchFrom(p.items, text, 1))


(***************************************************************************)
(* The pattern configuration, SignalParser.__init__                        *)
(***************************************************************************)
ColonSpace == { ":" } \cup Space
\* [0-9.,\s-]
PriceCls   == Digit \cup { ".", ",", "-" } \cup Space
\* [0-9.,]
StopCls    == Digit \cup { ".", "," }
Dollar     == { "$" }

\* a pattern whose group 1 is grp, between pre and post
PatG(pre, grp, post) == Pat(pre \o grp \o post, Len(pre) + 1, Len(pre) + Len(grp))

\* [0-9]+\.?[0-9]*
Number  == Plus(Digit) \o Opt({ "." }) \o Star(Digit)
\* <label>[:\s]*\$?([0-9.,\s-]+)
PriceAfter(label) == PatG(label \o Star(ColonSpace) \o Opt(Dollar), Plus(PriceCls), << >>)
\* <label>[:\s]*\$?([0-9.,]+)
StopAfter(label)  == PatG(label \o Star(ColonSpace) \o Opt(Dollar), Plus(StopCls), << >>)
W_LONG  == << "L","O","N","G" >>
W_SHORT == << "S","H","O","R","T" >>
W_BUY   == << "B","U","Y" >>
W_SELL  == << "S","E","L","L" >>
\* (LONG|SHORT|BUY|SELL)
Direction == Alt(<< W_LONG, W_SHORT, W_BUY, W_SELL >>)

W_symbol   == << "s","y","m","b","o","l" >>
W_coin     == << "c","o","i","n" >>
W_pair     == << "p","a","i","r" >>
W_usdt     == << "U","S","D","T" >>
W_signal   == << "s","i","g","n","a","l" >>
W_type     == << "t","y","p","e" >>
W_entries  == << "e","n","t","r","i","e","s" >>
W_entry    == << "e","n","t","r","y" >>
W_entr     == << "e","n","t","r" >>
W_buy      == << "b","u","y" >>
W_zone     == << "z","o","n","e" >>
W_enter    == << "e","n","t","e","r" >>
W_targets  == << "t","a","r","g","e","t","s" >>
W_target   == << "t","a","r","g","e","t" >>
W_tp       == << "t","p" >>
W_take     == << "t","a","k","e" >>
W_profit   == << "p","r","o","f","i","t" >>
W_stoploss == << "s","t","o","p","l","o","s","s" >>
W_stop     == << "s","t","o","p" >>
W_loss     == << "l","o","s","s" >>
W_sl       == << "s","l" >>

SymbolPatterns ==
    << PatG(Lit(W_symbol) \o Star(ColonSpace), << Rep(Alpha, 3, 10) >>, << >>),
       PatG(Lit(W_coin) \o Star(ColonSpace), << Rep(Alpha, 3, 10) >>, << >>),
       PatG(Lit(W_pair) \o Star(ColonSpace), << Rep(Alpha, 3, 10) >>, << >>),
       PatG(<< >>, << Rep(Alpha, 3, 10) >>, Lit(W_usdt)),
       PatG(<< >>, << Rep(Alpha, 3, 10) >>, Lit(<< "/" >> \o W_usdt)),
       PatG(Lit(W_symbol) \o Star(ColonSpace), Plus(Word), << >>),
       PatG(<< >>, << Rep(Alpha, 3, 10) >>, One(Space)) >>

SignalTypePatterns ==
    << PatG(<< >>, Direction, << >>),
       PatG(Lit(W_signal) \o Star(ColonSpace), Direction, << >>),
       PatG(Lit(W_type) \o Star(ColonSpace), Direction, << >>) >>

EntriesPatterns ==
    << PriceAfter(Lit(W_entries)),
       PriceAfter(Lit(W_entry)),
       PriceAfter(Lit(W_entr) \o Alt(<< << "y" >>, << "i","e","s" >> >>)),
       PriceAfter(Lit(W_buy) \o Star(Space) \o Lit(W_zone)),
       PriceAfter(Lit(W_enter)),
       PatG(One(Dollar), Number,
            Star(Space) \o One({ "-" }) \o Star(Space) \o One(Dollar) \o Number),
       PatG(<< >>, Number, Star(Space) \o One({ "-" }) \o Star(Space) \o Number) >>

TargetsPatterns ==
    << PriceAfter(Lit(W_targets)),
       PriceAfter(Lit(W_target)),
       PriceAfter(Lit(W_tp)),
       PriceAfter(Lit(W_take) \o Star(Space) \o Lit(W_profit)),
       PatG(One(Dollar),
            Number \o Loop(Star(Space) \o One({ "-" }) \o Star(Space)
                           \o One(Dollar) \o Number),
            << >>) >>

StoplossPatterns ==
    << StopAfter(Lit(W_stoploss)),
       StopAfter(Lit(W_stop) \o Star(Space) \o Lit(W_loss)),
       StopAfter(Lit(W_sl)) >>

\* self.patterns
patterns ==
    [ symbol      |-> SymbolPatterns,
      signal_type |-> SignalTypePatterns,
      entries     |-> EntriesPatterns,
      targets     |-> TargetsPatterns,
      stoploss    |-> StoplossPatterns ]

(***************************************************************************)
(* The Price Normalizer, SignalParser._clean_price_data                    *)
(***************************************************************************)
\* re.sub(r'\s+', ' ', s)
RECURSIVE SubSpaceRuns(_, _)
SubSpaceRuns(s, i) ==
    IF i > Len(s) THEN << >>
    ELSE IF s[i] \in Space
         THEN << " " >> \o SubSpaceRuns(s, i + RunLen(Rep(Space, 1, 0), s, i, Len(s)))
         ELSE << s[i] >> \o SubSpaceRuns(s, i + 1)

\* Mutant of CollapseSpaces: the re.sub is missing, the text is only stripped.
StripOnly(s) == Strip(s)

\* line 277
CollapseSpaces(s) == SubSpaceRuns(Strip(s), 1)

\* .replace('  ', ' ').replace(' -', '-').replace('- ', '-')
TightenDashes(s) ==
    Replace(Replace(Replace(s, << " ", " " >>, << " " >>),
                    << " ", "-" >>, << "-" >>),
            << "-", " " >>, << "-" >>)

\* re.search(r'\d+\.?\d*', s)
HasNumber(s) == SearchFrom(Number, s, 1) # << >>

\* lines 283-287: the cleaned text when it holds a number, else ""
NumberOrEmpty(cleaned) == IF HasNumber(cleaned) THEN cleaned ELSE << >>

_clean_price_data(price_text) ==
    IF price_text = << >> THEN << >>
    ELSE NumberOrEmpty(TightenDashes(CollapseSpaces(price_text)))

(***************************************************************************)
(* The Pattern Cascade Extractor                                           *)
(***************************************************************************)
\* Mutant of ValidSymbol: the lower length limit is off by one.
ValidSymbolFromTwo(g) ==
    g # NoneVal /\ 2 <= Len(Upper(g)) /\ Len(Upper(g)) <= 10 /\ IsAlpha(Upper(g))

\* lines 199-202: the capture g is accepted when it is 3-10 letters
ValidSymbol(g) ==
    g # NoneVal /\ 3 <= Len(Upper(g)) /\ Len(Upper(g)) <= 10 /\ IsAlpha(Upper(g))

\* _extract_symbol from pattern i on; g is the capture of pattern i
RECURSIVE ExtractSymbolFrom(_, _)
RECURSIVE ExtractSymbolStep(_, _, _)
ExtractSymbolFrom(text, i) ==
    IF i > Len(patterns.symbol) THEN NoneVal
    ELSE ExtractSymbolStep(text, i, Group1(patterns.symbol[i], text))

ExtractSymbolStep(text, i, g) ==
    IF ValidSymbol(g) THEN Upper(g) ELSE ExtractSymbolFrom(text, i + 1)

_extract_symbol(text) == ExtractSymbolFrom(text, 1)

\* Mutant of NormalizeSignalType: BUY and SELL are passed through.
NormalizeNothing(signal_type) ==
    IF signal_type \in { W_LONG, W_SHORT, W_BUY, W_SELL } THEN signal_type ELSE NoneVal

\* the normalization of a matched direction token; NoneVal: try the next pattern
NormalizeSignalType(signal_type) ==
    CASE signal_type = W_BUY -> W_LONG
      [] signal_type = W_SELL -> W_SHORT
      [] signal_type \in { W_LONG, W_SHORT } -> signal_type
      [] OTHER -> NoneVal

\* _extract_signal_type from pattern i on; g is the capture of pattern i
RECURSIVE ExtractSignalTypeFrom(_, _)
RECURSIVE ExtractSignalTypeStep(_, _, _)
ExtractSignalTypeFrom(text, i) ==
    IF i > Len(patterns.signal_type) THEN NoneVal
    ELSE ExtractSignalTypeStep(text, i, Group1(patterns.signal_type[i], text))

ExtractSignalTypeStep(text, i, g) ==
    IF g # NoneVal /\ NormalizeSignalType(Upper(g)) # NoneVal
    THEN NormalizeSignalType(Upper(g))
    ELSE ExtractSignalTypeFrom(text, i + 1)

_extract_signal_type(text) == ExtractSignalTypeFrom(text, 1)

\* the loop shared by _extract_entries, _extract_targets and _extract_stoploss:
\* the first pattern whose capture the Price Normalizer does not reject
\* v is the normalized capture of pattern i, NoneVal when it did not match
RECURSIVE ExtractPriceFrom(_, _, _)
RECURSIVE ExtractPriceStep(_, _, _, _)
CleanCapture(g) == IF g = NoneVal THEN NoneVal ELSE _clean_price_data(Strip(g))

ExtractPriceFrom(pats, text, i) ==
    IF i > Len(pats) THEN NoneVal
    ELSE ExtractPriceStep(pats, text, i, CleanCapture(Group1(pats[i], text)))

ExtractPriceStep(pats, text, i, v) ==
    IF Truthy(v) THEN v ELSE ExtractPriceFrom(pats, text, i + 1)

_extract_entries(text) == ExtractPriceFrom(patterns.entries, text, 1)

\* Mutant of _extract_stoploss: it reads the targets patterns.
ExtractStoplossByTargets(text) == ExtractPriceFrom(patterns.targets, text, 1)

_extract_stoploss(text) == ExtractPriceFrom(patterns.stoploss, text, 1)

\* '$' in next_line or re.search(r'\d+\.\d+', next_line)
LooksLikeTargets(next_line) ==
    \/ Contains(next_line, << "$" >>)
    \/ SearchFrom(Plus(Digit) \o One({ "." }) \o Plus(Digit), next_line, 1) # << >>

\* the inner loop of the fallback of _extract_targets: lines j..hi after a
\* "targets:" line
RECURSIVE TargetsAfter(_, _, _)
RECURSIVE TargetsAfterStep(_, _, _, _)
\* lines 250-253: the normalized next line when it looks like targets data
CleanedTargetsLine(next_line) ==
    IF next_line # << >> /\ LooksLikeTargets(next_line)
    THEN _clean_price_data(next_line) ELSE << >>

TargetsAfter(lines, j, hi) ==
    IF j > hi THEN NoneVal
    ELSE TargetsAfterStep(lines, j, hi, CleanedTargetsLine(Strip(lines[j])))

TargetsAfterStep(lines, j, hi, cleaned_targets) ==
    IF cleaned_targets # << >> THEN cleaned_targets
    ELSE TargetsAfter(lines, j + 1, hi)

\* the outer loop: every line containing "targets:"
RECURSIVE TargetsFallback(_, _)
RECURSIVE TargetsFallbackStep(_, _, _)
TargetsFallback(lines, i) ==
    IF i > Len(lines) THEN NoneVal
    ELSE TargetsFallbackStep(lines, i,
             IF Contains(Lower(lines[i]), W_targets \o << ":" >>)
             THEN TargetsAfter(lines, i + 1,
                               IF i + 2 < Len(lines) THEN i + 2 ELSE Len(lines))
             ELSE NoneVal)

TargetsFallbackStep(lines, i, found) ==
    IF found # NoneVal THEN found ELSE TargetsFallback(lines, i + 1)

\* lines 244-257, reached when no pattern gave a value
TargetsOr(byPattern, text) ==
    IF byPattern # NoneVal THEN byPattern
    ELSE TargetsFallback(SplitLines(text), 1)

_extract_targets(text) ==
    TargetsOr(ExtractPriceFrom(patterns.targets, text, 1), text)


(***************************************************************************)
(* Dicts                                                                   *)
(***************************************************************************)
EmptyDict == [ k \in {} |-> << >> ]

\* d[k] = v
Put(d, k, v) == [ x \in DOMAIN d \cup { k } |-> IF x = k THEN v ELSE d[x] ]

required_fields == { "symbol", "signal_type", "entries", "targets", "stoploss" }

(***************************************************************************)
(* The Labeled-Line Parser, SignalParser._parse_structured_text            *)
(***************************************************************************)
W_SOLUSOT == << "S","O","L","U","S","O","T" >>
\* the second garbled variant ends in the two characters U+00D0 U+00A2
W_SOLUSO2 == << "S","O","L","U","S","O","U+00D0","U+00A2" >>
W_SOLUSDT == << "S","O","L","U","S","D","T" >>

\* r'symbol[:\s]*(\w+)'
SymbolLinePattern   == PatG(Lit(W_symbol) \o Star(ColonSpace), Plus(Word), << >>)
\* r'(LONG|SHORT)'
LongShortPattern    == PatG(<< >>, Alt(<< W_LONG, W_SHORT >>), << >>)
\* r'entries[:\s]*(.+)'
EntriesLinePattern  == PatG(Lit(W_entries) \o Star(ColonSpace), DotPlus, << >>)
\* r'stoploss[:\s]*(.+)'
StoplossLinePattern == PatG(Lit(W_stoploss) \o Star(ColonSpace), DotPlus, << >>)
\* r'targets[:\s]*(.+)'
TargetsLinePattern  == PatG(Lit(W_targets) \o Star(ColonSpace), DotPlus, << >>)

\* lines 136-138: the table of known OCR misreads
FixOcr(symbol) ==
    IF Contains(symbol, W_SOLUSOT) \/ Contains(symbol, W_SOLUSO2)
    THEN W_SOLUSDT ELSE symbol

\* a label step stores value under field when the label is in the line and
\* its pattern captured g
StoreCapture(signal_data, labelled, field, g, value) ==
    IF labelled /\ g # NoneVal THEN Put(signal_data, field, value) ELSE signal_data

UpperOf(g) == Upper(g)
FixedUpperOf(g) == FixOcr(Upper(g))
StripOf(g) == Strip(g)

\* lines 131-139: the symbol label
SymbolStepWith(line, signal_data, g) ==
    StoreCapture(signal_data, Contains(Lower(line), W_symbol \o << ":" >>),
                 "symbol", g, FixedUpperOf(g))

SymbolStep(line, signal_data) ==
    SymbolStepWith(line, signal_data, Group1(SymbolLinePattern, line))

\* lines 141-145: the direction label, literal LONG or SHORT only
SignalTypeStepWith(line, signal_data, g) ==
    StoreCapture(signal_data,
                 \/ Contains(Lower(line), W_signal \o W_type \o << ":" >>)
                 \/ Contains(Lower(line), W_signal \o << " " >> \o W_type \o << ":" >>),
                 "signal_type", g, UpperOf(g))

SignalTypeStep(line, signal_data) ==
    SignalTypeStepWith(line, signal_data, Group1(LongShortPattern, line))

\* lines 147-152: the entries label, same-line capture
EntriesStepWith(line, signal_data, g) ==
    StoreCapture(signal_data, Contains(Lower(line), W_entries \o << ":" >>),
                 "entries", g, StripOf(g))

EntriesStep(line, signal_data) ==
    EntriesStepWith(line, signal_data, Group1(EntriesLinePattern, line))

\* lines 154-159: the stop-loss label, same-line capture
StoplossStepWith(line, signal_data, g) ==
    StoreCapture(signal_data, Contains(Lower(line), W_stoploss \o << ":" >>),
                 "stoploss", g, StripOf(g))

StoplossStep(line, signal_data) ==
    StoplossStepWith(line, signal_data, Group1(StoplossLinePattern, line))

\* lines 173-178: the first of lines i..hi that holds '$' or a decimal number
RECURSIVE LookAhead(_, _, _)
LookAhead(lines, i, hi) ==
    IF i > hi THEN << >>
    ELSE IF Strip(lines[i]) # << >> /\ LooksLikeTargets(Strip(lines[i]))
         THEN << Strip(lines[i]) >>
         ELSE LookAhead(lines, i + 1, hi)

\* lines.index(line): the stripped line is looked up among the unstripped lines
LineIndex(lines, line) == ListIndex(lines, line)

\* lines 167-178: the same-line value g when there is one, else the lookahead
TargetsText(lines, line_index, g) ==
    IF g # NoneVal /\ Strip(g) # << >> /\ Strip(g) # << ":" >>
    THEN << Strip(g) >>
    ELSE LookAhead(lines, line_index + 1,
                   IF line_index + 4 < Len(lines) THEN line_index + 4 ELSE Len(lines))

\* lines 180-181
StoreTargets(signal_data, targets_text) ==
    IF targets_text # << >>
    THEN [ err |-> FALSE, data |-> Put(signal_data, "targets", targets_text[1]) ]
    ELSE [ err |-> FALSE, data |-> signal_data ]

\* lines 164-181; line_index = 0 is the ValueError of lines.index
TargetsStepAt(lines, line, signal_data, line_index) ==
    IF line_index = 0 THEN [ err |-> TRUE, data |-> signal_data ]
    ELSE StoreTargets(signal_data,
                      TargetsText(lines, line_index, Group1(TargetsLinePattern, line)))

\* lines 161-181: the targets label
TargetsStep(lines, line, signal_data) ==
    IF ~ Contains(Lower(line), W_targets \o << ":" >>)
    THEN [ err |-> FALSE, data |-> signal_data ]
    ELSE TargetsStepAt(lines, line, signal_data, LineIndex(lines, line))

\* lines 131-181: the five label checks on one non-empty stripped line
LineSteps(lines, line, signal_data) ==
    TargetsStep(lines, line,
        StoplossStep(line,
            EntriesStep(line,
                SignalTypeStep(line, SymbolStep(line, signal_data)))))

\* the loop over the lines, from line n on; t is the outcome of line n
RECURSIVE ScanLines(_, _, _)
RECURSIVE ScanLine(_, _, _, _)
RECURSIVE ScanNext(_, _, _)

ScanLines(lines, n, signal_data) ==
    IF n > Len(lines) THEN [ err |-> FALSE, data |-> signal_data ]
    ELSE ScanLine(lines, n, signal_data, Strip(lines[n]))

ScanLine(lines, n, signal_data, line) ==
    IF line = << >> THEN ScanLines(lines, n + 1, signal_data)
    ELSE ScanNext(lines, n, LineSteps(lines, line, signal_data))

ScanNext(lines, n, t) ==
    IF t.err THEN t ELSE ScanLines(lines, n + 1, t.data)

\* Mutant of Complete: the stop-loss is left out of the required fields.
CompleteButStoploss(signal_data) ==
    { "symbol", "signal_type", "entries", "targets" } \subseteq DOMAIN signal_data

\* lines 183-188: all five fields, or nothing
Complete(signal_data) == required_fields \subseteq DOMAIN signal_data

\* Optional[Dict]: some = FALSE is None
NoRecord == [ some |-> FALSE, data |-> EmptyDict ]
Record(d) == [ some |-> TRUE, data |-> d ]

\* lines 183-192: any exception raised in the body is caught and None returned
StructuredResult(r) ==
    IF r.err THEN NoRecord
    ELSE IF Complete(r.data) THEN Record(r.data) ELSE NoRecord

_parse_structured_text(text) ==
    StructuredResult(ScanLines(SplitLines(text), 1, EmptyDict))

(***************************************************************************)
(* The Record Validator, SignalParser.validate_signal_data                 *)
(***************************************************************************)
\* A Python value handed to validate_signal_data: a dict, None, an int or a
\* list.  "field not in signal_data" raises TypeError on None and on an int;
\* on a list it is a membership test.
DictArg(d) == [ type |-> "dict", data |-> d ]
NoneArg    == [ type |-> "NoneType", data |-> EmptyDict ]
IntArg     == [ type |-> "int", data |-> EmptyDict ]
ListArg    == [ type |-> "list", data |-> EmptyDict ]

\* the outcome of a call: a returned value, or an exception that propagates
Returned(v) == [ raised |-> FALSE, value |-> v ]
Raised      == [ raised |-> TRUE, value |-> FALSE ]

validate_signal_data(signal_data) ==
    CASE signal_data.type \in { "NoneType", "int" } -> Raised
      [] signal_data.type = "list" -> Returned(FALSE)
      [] signal_data.type = "dict" ->
           LET d == signal_data.data IN
           IF \E field \in required_fields :
                  field \notin DOMAIN d \/ ~ Truthy(d[field])
           THEN Returned(FALSE)
           ELSE Returned(d["signal_type"] \in { W_LONG, W_SHORT })

(***************************************************************************)
(* The public entry point, SignalParser.parse_signal                       *)
(***************************************************************************)
\* The cascade, lines 70-112.  calls maps every extractor invoked to what it
\* returned; an extractor that returns no value ends the call with None.
\* Mutant of CascadeStoploss: the "if not stoploss" check is missing.
CascadeStoplossUnchecked(text_upper, calls, stoploss) ==
    [ result |-> Record(Put(calls, "stoploss", stoploss)),
      calls  |-> Put(calls, "stoploss", stoploss) ]

CascadeStoploss(text_upper, calls, stoploss) ==
    IF ~ Truthy(stoploss)
    THEN [ result |-> NoRecord, calls |-> Put(calls, "stoploss", stoploss) ]
    ELSE [ result |-> Record(Put(calls, "stoploss", stoploss)),
           calls  |-> Put(calls, "stoploss", stoploss) ]

CascadeTargets(text_upper, calls, targets) ==
    IF ~ Truthy(targets)
    THEN [ result |-> NoRecord, calls |-> Put(calls, "targets", targets) ]
    ELSE CascadeStoploss(text_upper, Put(calls, "targets", targets),
                         _extract_stoploss(text_upper))

CascadeEntries(text_upper, calls, entries) ==
    IF ~ Truthy(entries)
    THEN [ result |-> NoRecord, calls |-> Put(calls, "entries", entries) ]
    ELSE CascadeTargets(text_upper, Put(calls, "entries", entries),
                        _extract_targets(text_upper))

CascadeSignalType(text_upper, calls, signal_type) ==
    IF ~ Truthy(signal_type)
    THEN [ result |-> NoRecord, calls |-> Put(calls, "signal_type", signal_type) ]
    ELSE CascadeEntries(text_upper, Put(calls, "signal_type", signal_type),
                        _extract_entries(text_upper))

CascadeSymbol(text_upper, symbol) ==
    IF ~ Truthy(symbol)
    THEN [ result |-> NoRecord, calls |-> Put(EmptyDict, "symbol", symbol) ]
    ELSE CascadeSignalType(text_upper, Put(EmptyDict, "symbol", symbol),
                           _extract_signal_type(text_upper))

Cascade(text_upper) == CascadeSymbol(text_upper, _extract_symbol(text_upper))

\* the outcome of the try block: exc is an exception raised inside it
Outcome(exc, result, path, calls) ==
    [ exc |-> exc, result |-> result, path |-> path, calls |-> calls ]

\* lines 70-112
Fallback(c) == Outcome(FALSE, c.result, "cascade", c.calls)

\* the cascade's record with the fields the labeled lines gave written over it
MergedWith(c, partial) ==
    [ result |-> IF c.result.some
                 THEN Record([ f \in DOMAIN c.result.data |->
                                 IF f \in DOMAIN partial THEN partial[f]
                                 ELSE c.result.data[f] ])
                 ELSE NoRecord,
      calls |-> c.calls ]

\* Mutant of LabeledOr: the cascade only fills what the labeled lines left out.
LabeledOrMerged(parsed_data, text) ==
    IF parsed_data.some THEN Outcome(FALSE, parsed_data, "labeled", EmptyDict)
    ELSE Fallback(MergedWith(Cascade(Upper(text)),
                             ScanLines(SplitLines(text), 1, EmptyDict).data))

\* lines 66-68: the labeled-line record when there is one, else the cascade
LabeledOr(parsed_data, text) ==
    IF parsed_data.some THEN Outcome(FALSE, parsed_data, "labeled", EmptyDict)
    ELSE Fallback(Cascade(Upper(text)))

\* the body of the try block; text.upper() raises when text is no str
ParseBody(type, text) ==
    IF type # "str" THEN Outcome(TRUE, NoRecord, "none", EmptyDict)
    ELSE LabeledOr(_parse_structured_text(text), text)

\* except Exception: return None (lines 114-116)
CatchAll(b) ==
    IF b.exc
    THEN [ raised |-> FALSE, result |-> NoRecord, path |-> "none", calls |-> EmptyDict ]
    ELSE [ raised |-> FALSE, result |-> b.result, path |-> b.path, calls |-> b.calls ]

parse_signal(type, text) == CatchAll(ParseBody(type, text))

(***************************************************************************)
(* Input texts: lines as the OCR collaborator hands them over              *)
(***************************************************************************)
\* "Symbol: BTC"
L_symbol ==
    << "S","y","m","b","o","l",":"," ","B","T","C" >>
\* "Symbol: xx"
L_symbol_short ==
    << "S","y","m","b","o","l",":"," ","x","x" >>
\* "SignalType: LONG"
L_type ==
    << "S","i","g","n","a","l","T","y","p","e",":"," ","L","O","N","G" >>
\* "Signal Type: sell"
L_type_sell ==
    << "S","i","g","n","a","l"," ","T","y","p","e",":"," ","s","e","l","l" >>
\* "Entries: 1 - 2"
L_entries ==
    << "E","n","t","r","i","e","s",":"," ","1"," ","-"," ","2" >>
\* "StopLoss: 3"
L_stoploss ==
    << "S","t","o","p","L","o","s","s",":"," ","3" >>
\* "Targets:"
L_targets_bare ==
    << "T","a","r","g","e","t","s",":" >>
\* "$5"
L_price ==
    << "$","5" >>
\* " Targets: 4"
L_targets_indented ==
    << " ","T","a","r","g","e","t","s",":"," ","4" >>
\* "Targets: 4"
L_targets ==
    << "T","a","r","g","e","t","s",":"," ","4" >>
\* "ETHUSDT LONG entry 3000-3100 tp 3300 sl 2900"
L_unlabeled ==
    << "E","T","H","U","S","D","T"," ","L","O","N","G"," ","e","n","t","r","y"," ","3","0","0","0","-","3","1","0","0"," ","t","p"," ","3","3","0","0"," ","s","l"," ","2","9","0","0" >>

\* "Symbol: SOLUSOT"
L_symbol_ocr ==
    << "S","y","m","b","o","l",":"," ","S","O","L","U","S","O","T" >>

InputLines ==
    << L_symbol, L_symbol_short, L_type, L_type_sell, L_entries, L_stoploss,
       L_targets_bare, L_price, L_targets_indented, L_targets, L_unlabeled,
       L_symbol_ocr >>

\* the most lines a text is made of
MaxLines == 5

(***************************************************************************)
(* Calls in flight on one parser, and the command layer's bookkeeping      *)
(***************************************************************************)
\* the text made of the given lines, as the OCR collaborator joins them
RECURSIVE JoinLines(_)
JoinLines(ls) ==
    IF ls = << >> THEN << >>
    ELSE IF Len(ls) = 1 THEN ls[1]
    ELSE ls[1] \o << "\n" >> \o JoinLines(Tail(ls))

\* the parse_signal calls that may be in flight at once
NumCalls == 2
Calls == 1 .. NumCalls

\* the locals of one parse_signal call: pc is the statement it is at
Idle ==
    [ pc |-> "idle", text |-> << >>, text_upper |-> << >>,
      signal_data |-> EmptyDict, result |-> NoRecord ]

\* the order of the cascade, lines 70-112; after the last field the call returns
NextField(f) ==
    CASE f = "symbol" -> "signal_type"
      [] f = "signal_type" -> "entries"
      [] f = "entries" -> "targets"
      [] f = "targets" -> "stoploss"
      [] f = "stoploss" -> "done"

\* self._extract_<field>(text_upper)
Extractor(f, text_upper) ==
    CASE f = "symbol" -> _extract_symbol(text_upper)
      [] f = "signal_type" -> _extract_signal_type(text_upper)
      [] f = "entries" -> _extract_entries(text_upper)
      [] f = "targets" -> _extract_targets(text_upper)
      [] f = "stoploss" -> _extract_stoploss(text_upper)

\* the loop of _parse_structured_text before its first line: n lines are done,
\* before is the accumulator as it was when line n was reached
NoScan ==
    [ lines |-> << >>, n |-> 0, before |-> EmptyDict, signal_data |-> EmptyDict,
      err |-> FALSE ]

\* the conversations, and the caps on stored records and on sends of one record
NumChats == 2
Chats == 1 .. NumChats
MaxImages == 2
MaxSends == 2

\* no update handled yet; had: the chat had a pending record when the update
\* came in, sends: the messages the handler sent to the group, record: the
\* record the handler stored (0: none)
NoEvent == [ op |-> "none", chat |-> 0, had |-> FALSE, sends |-> 0, record |-> 0 ]

\* del d[k]
Remove(d, k) == [ x \in DOMAIN d \ { k } |-> d[x] ]

(***************************************************************************)
(* The state machine                                                       *)
(***************************************************************************)
VARIABLES
    argType,  \* the Python type of the value handed to parse_signal
    text,     \* the text handed to parse_signal
    picked,   \* the input lines text is made of, as indices of InputLines
    phase,    \* "compose", "parsed", "validated"
    result,   \* what parse_signal returned: None or a dict
    path,     \* the strategy that produced result: "labeled", "cascade", "none"
    calls,    \* the cascade extractors invoked, with what each returned
    raised,   \* the public operations that let an exception escape
    vArg,     \* the value handed to validate_signal_data
    vResult,  \* what validate_signal_data returned: "True", "False", "unset"
    price,    \* a raw price text handed to _clean_price_data
    passes,   \* what _clean_price_data returned for price, then for its own result
    running,  \* the locals of every parse_signal call in flight
    scan,     \* the labeled-line parser's loop: its lines, its position, its accumulator
    pending_messages, \* TradingSignalBot.pending_messages: chat id to the record awaiting an answer
    sent,     \* how often each stored record was sent to the group
    stored,   \* the number of records handle_image has stored
    event     \* the update handled last

vars == << argType, text, picked, phase, result, path, calls, raised, vArg, vResult,
           price, passes, running, scan, pending_messages, sent, stored, event >>

Init ==
    /\ argType = "str"
    /\ text = << >>
    /\ picked = << >>
    /\ phase = "compose"
    /\ result = NoRecord
    /\ path = "none"
    /\ calls = EmptyDict
    /\ raised = {}
    /\ vArg = NoneArg
    /\ vResult = "unset"
    /\ price = << >>
    /\ passes = << >>
    /\ running = [ c \in Calls |-> Idle ]
    /\ event = NoEvent
    /\ stored = 0
    /\ sent = [ i \in 1 .. MaxImages |-> 0 ]
    /\ pending_messages = EmptyDict
    /\ scan = NoScan

\* the OCR text grows by one line
AppendLine(i) ==
    /\ phase = "compose"
    /\ argType = "str"
    /\ Len(picked) < MaxLines
    /\ picked # << >> => i > picked[Len(picked)]
    /\ text' = IF picked = << >> THEN InputLines[i]
               ELSE text \o << "\n" >> \o InputLines[i]
    /\ picked' = Append(picked, i)
    /\ UNCHANGED << argType, phase, result, path, calls, raised, vArg, vResult, price, passes, running, scan, pending_messages, sent, stored, event >>

\* a caller hands over a value that is no str
MalformedInput(t) ==
    /\ phase = "compose"
    /\ argType = "str"
    /\ picked = << >>
    /\ argType' = t
    /\ UNCHANGED << text, picked, phase, result, path, calls, raised, vArg, vResult, price, passes, running, scan, pending_messages, sent, stored, event >>

\* the caller receives r from parse_signal
ParseReturns(r) ==
    /\ result' = r.result
    /\ path' = r.path
    /\ calls' = r.calls
    /\ raised' = IF r.raised THEN raised \cup { "parse_signal" } ELSE raised

\* one call of parse_signal
ParseSignal ==
    /\ phase = "compose"
    /\ ParseReturns(parse_signal(argType, text))
    /\ phase' = "parsed"
    /\ UNCHANGED << argType, text, picked, vArg, vResult, price, passes, running, scan, pending_messages, sent, stored, event >>

\* what a collaborator may hand to validate_signal_data after a parse
ValidateArgs ==
    { NoneArg, IntArg, ListArg } \cup
    (IF result.some THEN { DictArg(result.data) } ELSE {})

\* one call of validate_signal_data
ValidateSignalData(a) ==
    /\ phase = "parsed"
    /\ vResult' = IF validate_signal_data(a).raised THEN "unset"
                  ELSE IF validate_signal_data(a).value THEN "True" ELSE "False"
    /\ raised' = IF validate_signal_data(a).raised
                 THEN raised \cup { "validate_signal_data" } ELSE raised
    /\ vArg' = a
    /\ phase' = "validated"
    /\ UNCHANGED << argType, text, picked, result, path, calls, price, passes, running, scan, pending_messages, sent, stored, event >>

Next ==
    \/ \E i \in DOMAIN InputLines : AppendLine(i)
    \/ \E t \in { "NoneType", "int" } : MalformedInput(t)
    \/ ParseSignal
    \/ \E a \in ValidateArgs : ValidateSignalData(a)

Spec == Init /\ [][Next]_vars

(***************************************************************************)
(* The Price Normalizer on its own: every short text over PriceChars       *)
(***************************************************************************)
\* the longest raw price text
MaxPriceLen == 4

\* a digit, a space, another whitespace character, a dash, anything else
PriceChars == { "1", " ", "\n", "-", "x" }

PriceTexts == UNION { [ 1 .. n -> PriceChars ] : n \in 0 .. MaxPriceLen }

CleanInit ==
    /\ price \in PriceTexts
    /\ passes = << >>
    /\ argType = "str"
    /\ text = << >>
    /\ picked = << >>
    /\ phase = "compose"
    /\ result = NoRecord
    /\ path = "none"
    /\ calls = EmptyDict
    /\ raised = {}
    /\ vArg = NoneArg
    /\ vResult = "unset"
    /\ running = [ c \in Calls |-> Idle ]
    /\ event = NoEvent
    /\ stored = 0
    /\ sent = [ i \in 1 .. MaxImages |-> 0 ]
    /\ pending_messages = EmptyDict
    /\ scan = NoScan

\* one call of _clean_price_data: on price, then on what the call before returned
CleanPrice ==
    /\ Len(passes) < 2
    /\ passes' = Append(passes,
                        _clean_price_data(IF passes = << >> THEN price
                                          ELSE passes[Len(passes)]))
    /\ UNCHANGED << argType, text, picked, phase, result, path, calls, raised,
                    vArg, vResult, price, running, scan, pending_messages, sent, stored, event >>

CleanNext == CleanPrice

CleanSpec == CleanInit /\ [][CleanNext]_vars

(***************************************************************************)
(* Several parse_signal calls on one parser, interleaved statement by      *)
(* statement                                                               *)
(***************************************************************************)
\* the texts the calls are made on: the unlabeled scenario, a complete set of
\* labeled lines, and a text the cascade gives up on
CallTexts ==
    { L_unlabeled,
      JoinLines(<< L_symbol, L_type, L_entries, L_stoploss, L_targets >>),
      JoinLines(<< L_symbol, L_type_sell >>) }

CallInit ==
    /\ running = [ c \in Calls |-> Idle ]
    /\ event = NoEvent
    /\ stored = 0
    /\ sent = [ i \in 1 .. MaxImages |-> 0 ]
    /\ pending_messages = EmptyDict
    /\ scan = NoScan
    /\ argType = "str"
    /\ text = << >>
    /\ picked = << >>
    /\ phase = "compose"
    /\ result = NoRecord
    /\ path = "none"
    /\ calls = EmptyDict
    /\ raised = {}
    /\ vArg = NoneArg
    /\ vResult = "unset"
    /\ price = << >>
    /\ passes = << >>

\* Mutant of TextUpperOf: text_upper is kept on the parser, shared by the calls.
TextUpperShared(c) == running[1].text_upper

\* line 61: text_upper is a local of the call
TextUpperOf(c) == running[c].text_upper

\* lines 61-62: the call is entered with text t
StartCall(c, t) ==
    /\ running[c].pc = "idle"
    /\ running' = [ running EXCEPT ![c] =
                      [ pc |-> "structured", text |-> t, text_upper |-> Upper(t),
                        signal_data |-> EmptyDict, result |-> NoRecord ] ]
    /\ UNCHANGED << argType, text, picked, phase, result, path, calls, raised,
                    vArg, vResult, price, passes, scan, pending_messages, sent, stored, event >>

\* lines 65-68: the labeled-line record is returned when there is one
AfterStructured(call, parsed_data) ==
    IF parsed_data.some
    THEN [ call EXCEPT !.pc = "done", !.result = parsed_data ]
    ELSE [ call EXCEPT !.pc = "symbol" ]

StructuredCall(c) ==
    /\ running[c].pc = "structured"
    /\ running' = [ running EXCEPT ![c] =
                      AfterStructured(running[c], _parse_structured_text(running[c].text)) ]
    /\ UNCHANGED << argType, text, picked, phase, result, path, calls, raised,
                    vArg, vResult, price, passes, scan, pending_messages, sent, stored, event >>

\* lines 71-112: one extractor call, its "if not" check and its store
AfterExtract(call, f, value) ==
    IF ~ Truthy(value)
    THEN [ call EXCEPT !.pc = "done", !.result = NoRecord ]
    ELSE [ call EXCEPT !.pc = NextField(f),
                       !.signal_data = Put(call.signal_data, f, value),
                       !.result = IF f = "stoploss"
                                  THEN Record(Put(call.signal_data, f, value))
                                  ELSE NoRecord ]

ExtractCall(c) ==
    /\ running[c].pc \in required_fields
    /\ running' = [ running EXCEPT ![c] =
                      AfterExtract(running[c], running[c].pc,
                                   Extractor(running[c].pc, TextUpperOf(c))) ]
    /\ UNCHANGED << argType, text, picked, phase, result, path, calls, raised,
                    vArg, vResult, price, passes, scan, pending_messages, sent, stored, event >>

\* the call returns and its locals are gone
ReturnCall(c) ==
    /\ running[c].pc = "done"
    /\ running' = [ running EXCEPT ![c] = Idle ]
    /\ UNCHANGED << argType, text, picked, phase, result, path, calls, raised,
                    vArg, vResult, price, passes, scan, pending_messages, sent, stored, event >>

CallNext ==
    \/ \E c \in Calls : \E t \in CallTexts : StartCall(c, t)
    \/ \E c \in Calls : StructuredCall(c)
    \/ \E c \in Calls : ExtractCall(c)
    \/ \E c \in Calls : ReturnCall(c)

CallSpec == CallInit /\ [][CallNext]_vars

(***************************************************************************)
(* The labeled-line parser line by line, on texts with repeated lines      *)
(***************************************************************************)
\* "$6"
L_price_next ==
    << "$","6" >>
\* "Entries:"
L_entries_bare ==
    << "E","n","t","r","i","e","s",":" >>

ScanPool == { L_targets_bare, L_price, L_price_next, L_entries_bare }

\* the most lines of a scanned text
MaxScanLines == 6

ScanTexts == { JoinLines(ls) : ls \in UNION { [ 1 .. k -> ScanPool ] : k \in 1 .. MaxScanLines } }

ScanInit ==
    /\ scan \in { [ NoScan EXCEPT !.lines = SplitLines(t) ] : t \in ScanTexts }
    /\ running = [ c \in Calls |-> Idle ]
    /\ event = NoEvent
    /\ stored = 0
    /\ sent = [ i \in 1 .. MaxImages |-> 0 ]
    /\ pending_messages = EmptyDict
    /\ argType = "str"
    /\ text = << >>
    /\ picked = << >>
    /\ phase = "compose"
    /\ result = NoRecord
    /\ path = "none"
    /\ calls = EmptyDict
    /\ raised = {}
    /\ vArg = NoneArg
    /\ vResult = "unset"
    /\ price = << >>
    /\ passes = << >>

\* lines 126-181: one pass of the loop body; t is what the label checks gave,
\* an exception ends the loop
AfterLine(s, line, t) ==
    IF line = << >>
    THEN [ s EXCEPT !.n = s.n + 1, !.before = s.signal_data ]
    ELSE [ s EXCEPT !.n = s.n + 1, !.before = s.signal_data,
                    !.signal_data = t.data, !.err = t.err ]

ScanStep ==
    /\ ~ scan.err
    /\ scan.n < Len(scan.lines)
    /\ scan' = AfterLine(scan, Strip(scan.lines[scan.n + 1]),
                         LineSteps(scan.lines, Strip(scan.lines[scan.n + 1]),
                                   scan.signal_data))
    /\ UNCHANGED << argType, text, picked, phase, result, path, calls, raised,
                    vArg, vResult, price, passes, running, pending_messages, sent, stored, event >>

ScanLoopNext == ScanStep

ScanSpec == ScanInit /\ [][ScanLoopNext]_vars

(***************************************************************************)
(* The command layer, TradingSignalBot: images and confirmation callbacks  *)
(***************************************************************************)
\* what the OCR collaborator reads from an image: nothing, noise, a signal
BotTexts == { << >>, << "x" >>, L_unlabeled }

BotInit ==
    /\ pending_messages = EmptyDict
    /\ sent = [ i \in 1 .. MaxImages |-> 0 ]
    /\ stored = 0
    /\ event = NoEvent
    /\ running = [ c \in Calls |-> Idle ]
    /\ scan = NoScan
    /\ argType = "str"
    /\ text = << >>
    /\ picked = << >>
    /\ phase = "compose"
    /\ result = NoRecord
    /\ path = "none"
    /\ calls = EmptyDict
    /\ raised = {}
    /\ vArg = NoneArg
    /\ vResult = "unset"
    /\ price = << >>
    /\ passes = << >>

\* lines 70-91: no record, no pending entry; else the entry of the chat is
\* written, over the one it had
StorePending(chat_id, signal_data) ==
    IF ~ signal_data.some THEN UNCHANGED << pending_messages, stored >>
    ELSE /\ pending_messages' =
               Put(pending_messages, chat_id,
                   [ id |-> stored + 1, signal_data |-> signal_data.data ])
         /\ stored' = stored + 1

\* lines 42-99, for an image whose text the OCR gave as extracted_text
handle_image(chat_id, extracted_text) ==
    /\ stored < MaxImages
    /\ StorePending(chat_id,
                    IF extracted_text = << >> THEN NoRecord
                    ELSE parse_signal("str", extracted_text).result)
    /\ event' = [ op |-> "image", chat |-> chat_id,
                  had |-> chat_id \in DOMAIN pending_messages, sends |-> 0,
                  record |-> IF stored' > stored THEN stored' ELSE 0 ]
    /\ UNCHANGED << sent, argType, text, picked, phase, result, path, calls, raised,
                    vArg, vResult, price, passes, running, scan >>

\* lines 101-142; send_ok: send_message to the group returns, edit_ok:
\* query.edit_message_text after it returns.  On confirm the entry is deleted
\* inside the try, after both calls; on reject after the edit.
handle_confirmation(chat_id, action, send_ok, edit_ok) ==
    /\ event' = [ op |-> action, chat |-> chat_id,
                  had |-> chat_id \in DOMAIN pending_messages,
                  sends |-> IF chat_id \in DOMAIN pending_messages
                               /\ action = "confirm" /\ send_ok THEN 1 ELSE 0,
                  record |-> 0 ]
    /\ IF chat_id \notin DOMAIN pending_messages
       THEN UNCHANGED << pending_messages, sent >>
       ELSE IF action = "confirm"
       THEN /\ send_ok => sent[pending_messages[chat_id].id] < MaxSends
            /\ sent' = IF send_ok
                       THEN [ sent EXCEPT ![pending_messages[chat_id].id] = @ + 1 ]
                       ELSE sent
            /\ pending_messages' = IF send_ok /\ edit_ok
                                   THEN Remove(pending_messages, chat_id)
                                   ELSE pending_messages
       ELSE /\ sent' = sent
            /\ pending_messages' = IF edit_ok THEN Remove(pending_messages, chat_id)
                                   ELSE pending_messages
    /\ UNCHANGED << stored, argType, text, picked, phase, result, path, calls, raised,
                    vArg, vResult, price, passes, running, scan >>

BotNext ==
    \/ \E c \in Chats : \E t \in BotTexts : handle_image(c, t)
    \/ \E c \in Chats : \E a \in { "confirm", "reject" } :
          \E send_ok \in BOOLEAN : \E edit_ok \in BOOLEAN :
             handle_confirmation(c, a, send_ok, edit_ok)

BotSpec == BotInit /\ [][BotNext]_vars

(***************************************************************************)
(* Properties                                                              *)
(***************************************************************************)
\* parse_signal has just returned from a call on a text
Parsed == phase = "parsed" /\ argType = "str"

\* the price fields of a record
PriceFields == { "entries", "targets", "stoploss" }

\* C1: every record parse_signal returns, on either path, passes
\* validate_signal_data: the five fields are present and non-empty and the
\* direction is LONG or SHORT.
C1_ReturnedRecordIsValid ==
    result.some =>
        /\ validate_signal_data(DictArg(result.data)) = Returned(TRUE)
        /\ DOMAIN result.data = required_fields
        /\ \A f \in required_fields : Truthy(result.data[f])
        /\ result.data["signal_type"] \in { W_LONG, W_SHORT }

\* a record of the labeled-line path has been handed to the validator, which
\* accepted it
C1_Witness ==
    /\ phase = "validated"
    /\ path = "labeled"
    /\ result.some
    /\ vArg = DictArg(result.data)
    /\ vResult = "True"

\* the trimmed text after label when the trimmed line starts with it, else None
ValueAfterLabel(l, label) ==
    IF /\ Len(Strip(l)) >= Len(label)
       /\ Lower(SubSeq(Strip(l), 1, Len(label))) = label
    THEN Strip(SubSeq(Strip(l), Len(label) + 1, Len(Strip(l))))
    ELSE NoneVal

\* some line of t carries one of the labels with a value that satisfies Ok
HasLabeledLine(t, labels, Ok(_)) ==
    \E n \in DOMAIN SplitLines(t) : \E label \in labels :
        /\ Truthy(ValueAfterLabel(SplitLines(t)[n], label))
        /\ Ok(ValueAfterLabel(SplitLines(t)[n], label))

IsWordToken(v) == \A i \in DOMAIN v : v[i] \in Word
IsLongOrShort(v) == Upper(v) \in { W_LONG, W_SHORT }
AnyValue(v) == TRUE

DirectionLabels ==
    { W_signal \o W_type \o << ":" >>, W_signal \o << " " >> \o W_type \o << ":" >> }

\* t holds a complete set of labeled lines
CompleteLabeledSet(t) ==
    /\ HasLabeledLine(t, { W_symbol \o << ":" >> }, IsWordToken)
    /\ HasLabeledLine(t, DirectionLabels, IsLongOrShort)
    /\ HasLabeledLine(t, { W_entries \o << ":" >> }, AnyValue)
    /\ HasLabeledLine(t, { W_stoploss \o << ":" >> }, AnyValue)
    /\ HasLabeledLine(t, { W_targets \o << ":" >> }, AnyValue)

\* C2: for a text with a complete set of labeled lines, whatever the
\* whitespace around the lines, parse_signal returns the labeled-line
\* parser's record and invokes no cascade extractor.
C2_LabeledTextSkipsCascade ==
    (Parsed /\ CompleteLabeledSet(text)) =>
        (result.some /\ path = "labeled" /\ DOMAIN calls = {})

\* C3: the symbol of every returned record is 3 to 10 letters.
C3_SymbolIsThreeToTenLetters ==
    result.some =>
        /\ 3 <= Len(result.data["symbol"])
        /\ Len(result.data["symbol"]) <= 10
        /\ IsAlpha(result.data["symbol"])

\* what the cascade extractor of field f returns for t
Extracted(f, t) ==
    CASE f = "symbol" -> _extract_symbol(t)
      [] f = "signal_type" -> _extract_signal_type(t)
      [] f = "entries" -> _extract_entries(t)
      [] f = "targets" -> _extract_targets(t)
      [] f = "stoploss" -> _extract_stoploss(t)

\* C4: when the labeled-line parser gives no record and one of the five
\* cascade extractors yields no value for the text, parse_signal returns no
\* record, in particular when no stop-loss pattern matches; and no returned
\* record has fewer than the five fields.
C4_AllOrNothing ==
    /\ result.some => DOMAIN result.data = required_fields
    /\ (Parsed /\ path = "cascade"
          /\ \E f \in required_fields : ~ Truthy(Extracted(f, Upper(text))))
       => ~ result.some
    /\ (Parsed /\ path = "cascade" /\ _extract_stoploss(Upper(text)) = NoneVal)
       => ~ result.some

\* the cascade found every field but the stop-loss, and no record came back
C4_Witness ==
    /\ phase = "parsed"
    /\ path = "cascade"
    /\ DOMAIN calls = required_fields
    /\ \A f \in required_fields \ { "stoploss" } : Truthy(calls[f])
    /\ calls["stoploss"] = NoneVal
    /\ ~ result.some

\* the record of the unlabeled scenario, with the given symbol
ScenarioRecord(symbol) ==
    Record([ symbol      |-> symbol,
             signal_type |-> W_LONG,
             entries     |-> << "3","0","0","0","-","3","1","0","0" >>,
             targets     |-> << "3","3","0","0" >>,
             stoploss    |-> << "2","9","0","0" >> ])

\* the symbol comes from the USDT-suffix pattern, the fourth of the list: no
\* earlier pattern matches the text
ViaUsdtSuffix(symbol) ==
    /\ \A i \in 1 .. 3 : Group1(patterns.symbol[i], Upper(text)) = NoneVal
    /\ Group1(patterns.symbol[4], Upper(text)) = symbol

\* C5 as stated: "ETHUSDT LONG entry 3000-3100 tp 3300 sl 2900" gives, on the
\* cascade path, symbol ETHUSDT, LONG, entries 3000-3100, targets 3300,
\* stoploss 2900.
C5_ScenarioSymbolEthusdt ==
    (Parsed /\ text = L_unlabeled) =>
        /\ path = "cascade"
        /\ result = ScenarioRecord(<< "E","T","H","U","S","D","T" >>)

\* C5 amended: the same input gives, on the cascade path, symbol ETH (the
\* USDT-suffix pattern captures the letters before USDT), LONG, entries
\* 3000-3100, targets 3300, stoploss 2900.
C5_ScenarioSymbolEth ==
    (Parsed /\ text = L_unlabeled) =>
        /\ path = "cascade"
        /\ result = ScenarioRecord(<< "E","T","H" >>)
        /\ ViaUsdtSuffix(<< "E","T","H" >>)

\* parse_signal has returned a record for the scenario text
C5_Witness ==
    /\ phase = "parsed"
    /\ text = L_unlabeled
    /\ result.some

\* the direction words
DirectionWords == { W_LONG, W_SHORT, W_BUY, W_SELL }

\* the positions of t where a direction word starts
TokenStarts(t) == { p \in DOMAIN t : \E w \in DirectionWords : LitAt(t, p, w) }

\* the leftmost direction word of t, None when there is none
FirstToken(t) ==
    IF TokenStarts(t) = {} THEN NoneVal
    ELSE CHOOSE w \in DirectionWords : LitAt(t, Least(TokenStarts(t)), w)

\* BUY is LONG, SELL is SHORT
Canonical(w) ==
    CASE w = W_BUY -> W_LONG
      [] w = W_SELL -> W_SHORT
      [] OTHER -> w

\* the lines of t that carry a direction label
DirectionLines(t) ==
    { n \in DOMAIN SplitLines(t) :
        \E label \in DirectionLabels : Contains(Lower(SplitLines(t)[n]), label) }

\* t has direction lines, and each says BUY or SELL and neither LONG nor SHORT
SaysBuyOrSell(t) ==
    /\ DirectionLines(t) # {}
    /\ \A n \in DirectionLines(t) :
          /\ \/ Contains(Upper(SplitLines(t)[n]), W_BUY)
             \/ Contains(Upper(SplitLines(t)[n]), W_SELL)
          /\ ~ Contains(Upper(SplitLines(t)[n]), W_LONG)
          /\ ~ Contains(Upper(SplitLines(t)[n]), W_SHORT)

\* C6: on the cascade path the direction is the canonical form of the first
\* LONG/SHORT/BUY/SELL token of the text (BUY is LONG, SELL is SHORT) and
\* never another value; a text whose direction lines say BUY or SELL is
\* never returned by the labeled-line path.
C6_SynonymsNormalizedOnCascadeOnly ==
    /\ (Parsed /\ "signal_type" \in DOMAIN calls) =>
          /\ calls["signal_type"] = Canonical(FirstToken(Upper(text)))
          /\ calls["signal_type"] \in { W_LONG, W_SHORT, NoneVal }
    /\ (Parsed /\ path = "labeled") =>
          /\ result.data["signal_type"] \in { W_LONG, W_SHORT }
          /\ ~ SaysBuyOrSell(text)

\* a text whose direction line says sell came back from the cascade as SHORT
C6_Witness ==
    /\ phase = "parsed"
    /\ path = "cascade"
    /\ SaysBuyOrSell(text)
    /\ FirstToken(Upper(text)) = W_SELL
    /\ result.some
    /\ result.data["signal_type"] = W_SHORT

\* C7: neither public operation lets an exception escape: for an input that
\* is no str parse_signal returns no record, and for a value that is no dict
\* validate_signal_data returns false.
C7_FaultsBecomeNoRecord ==
    /\ raised = {}
    /\ (phase = "parsed" /\ argType # "str") => ~ result.some
    /\ (phase = "validated" /\ vArg.type # "dict") => vResult = "False"

\* the capture of every symbol pattern on the upper-cased text
SymbolCaptures(t) ==
    [ i \in DOMAIN patterns.symbol |-> Group1(patterns.symbol[i], Upper(t)) ]

\* the symbol patterns that match, given their captures
Matching(caps) == { i \in DOMAIN caps : caps[i] # NoneVal }

\* two patterns match with different captures
TwoCaptures(caps) ==
    \E i \in Matching(caps) : \E j \in Matching(caps) : caps[i] # caps[j]

\* a capture of 3 to 10 letters
ThreeToTenLetters(g) ==
    /\ 3 <= Len(g)
    /\ Len(g) <= 10
    /\ \A k \in DOMAIN g : g[k] \in Alpha

\* the matching patterns whose capture is 3 to 10 letters
Accepted(caps) == { i \in Matching(caps) : ThreeToTenLetters(caps[i]) }

FirstMatchWins(caps) ==
    TwoCaptures(caps) => calls["symbol"] = Upper(caps[Least(Matching(caps))])

FirstAcceptedWins(caps) ==
    TwoCaptures(caps) =>
        IF Accepted(caps) = {} THEN calls["symbol"] = NoneVal
        ELSE calls["symbol"] = Upper(caps[Least(Accepted(caps))])

FirstOfTwoReturned(caps) ==
    /\ TwoCaptures(caps)
    /\ Cardinality(Accepted(caps)) >= 2
    /\ calls["symbol"] = caps[Least(Accepted(caps))]

Normalized(v) ==
    /\ \E i \in DOMAIN v : v[i] \in Digit
    /\ \A i \in 1 .. Len(v) - 1 : ~ (v[i] \in Space /\ v[i + 1] \in Space)
    /\ \A i \in 1 .. Len(v) - 1 :
          /\ ~ (v[i] \in Space /\ v[i + 1] = "-")
          /\ ~ (v[i] = "-" /\ v[i + 1] \in Space)
    /\ _clean_price_data(v) = v

\* C9: entries, targets and stoploss of every returned record are
\* whitespace-normalized price strings.
C9_PriceFieldsNormalized ==
    result.some => \A f \in PriceFields : Normalized(result.data[f])

\* nothing a second pass would change: no whitespace run, no space at either
\* end, no space next to a dash
Settled(v) ==
    /\ \A i \in 1 .. Len(v) - 1 : ~ (v[i] \in Space /\ v[i + 1] \in Space)
    /\ v # << >> => (v[1] \notin Space /\ v[Len(v)] \notin Space)
    /\ \A i \in 1 .. Len(v) - 1 :
          /\ ~ (v[i] \in Space /\ v[i + 1] = "-")
          /\ ~ (v[i] = "-" /\ v[i + 1] \in Space)

\* C10: _clean_price_data is idempotent: a second pass returns what the first
\* returned, the first result holds nothing a second pass would change, and
\* the empty string maps to itself.
C10_CleanIsIdempotent ==
    /\ Len(passes) = 2 => passes[2] = passes[1]
    /\ Len(passes) >= 1 => Settled(passes[1])
    /\ (Len(passes) >= 1 /\ price = << >>) => passes[1] = << >>

\* a text the first pass changed into a non-empty result went through twice
C10_Witness ==
    /\ Len(passes) = 2
    /\ passes[1] # << >>
    /\ passes[1] # price
    /\ \E i \in DOMAIN price : price[i] = "-"

\* what the call c would return when run alone on its text
Alone(c) == parse_signal("str", running[c].text)

\* C11: parse_signal calls on one parser, interleaved in any order, do not
\* affect one another: a call that has reached its return holds the result
\* the call gives when run alone on the same text, and every value a call has
\* stored so far is the value its own text gives.
C11_CallsDoNotInterfere ==
    \A c \in Calls :
        /\ running[c].pc = "done" => running[c].result = Alone(c).result
        /\ running[c].pc \in required_fields =>
              /\ Alone(c).path = "cascade"
              /\ \A f \in DOMAIN running[c].signal_data :
                    running[c].signal_data[f] = Alone(c).calls[f]

\* a call is in the middle of its cascade while another, on another text, has
\* reached its return with a record
C11_Witness ==
    \E c \in Calls : \E d \in Calls :
        /\ running[c].pc = "done"
        /\ running[c].result.some
        /\ running[d].pc \in { "entries", "targets", "stoploss" }
        /\ running[d].text # running[c].text

\* the line the loop of the labeled-line parser has just done
Done == scan.lines[scan.n]

\* l holds '$' or a decimal number
HoldsPrice(l) ==
    \/ \E i \in DOMAIN l : l[i] = "$"
    \/ \E i \in 1 .. Len(l) - 2 :
          l[i] \in Digit /\ l[i + 1] = "." /\ l[i + 2] \in Digit

\* the lines with a price among the up to four lines that follow line n
Following(n) ==
    { j \in n + 1 .. (IF n + 4 < Len(scan.lines) THEN n + 4 ELSE Len(scan.lines)) :
        HoldsPrice(scan.lines[j]) }

\* C12: when the line just done carries the targets label with nothing or only
\* a colon after it, wherever it stands and also when the same line stands
\* earlier in the text, targets is the first of the up to four lines after it
\* that holds '$' or a decimal number, and nothing is stored when none does.
C12_TargetsFromFollowingLines ==
    (scan.n >= 1 /\ ValueAfterLabel(Done, W_targets \o << ":" >>) \in { << >>, << ":" >> })
    => /\ ~ scan.err
       /\ IF Following(scan.n) = {} THEN scan.signal_data = scan.before
          ELSE /\ "targets" \in DOMAIN scan.signal_data
               /\ scan.signal_data["targets"] = Strip(scan.lines[Least(Following(scan.n))])

\* C14: when the line just done carries the entries label, entries is the
\* trimmed text after the label and its colon on that line, and nothing is
\* stored when no text follows.
C14_EntriesFromSameLine ==
    (scan.n >= 1 /\ ValueAfterLabel(Done, W_entries \o << ":" >>) # NoneVal)
    => IF ValueAfterLabel(Done, W_entries \o << ":" >>) = << >>
       THEN scan.signal_data = scan.before
       ELSE /\ "entries" \in DOMAIN scan.signal_data
            /\ scan.signal_data["entries"] = ValueAfterLabel(Done, W_entries \o << ":" >>)

\* what the labeled-line parser has captured from t when its loop ends
Captured(t) == ScanLines(SplitLines(t), 1, EmptyDict)

\* r holds some of the five fields, not all
SomeNotAll(r) == ~ r.err /\ DOMAIN r.data # {} /\ ~ Complete(r.data)

\* the labeled-line parser captured some of the five fields of t, not all
PartlyLabeled(t) == SomeNotAll(Captured(t))

\* C13: when the labeled-line parser captures some but not all five fields,
\* the record parse_signal returns comes from the cascade alone: every field
\* is the value its extractor computes from the whole upper-cased text, so
\* that a value only the labeled lines gave is in no field.
C13_NoMergingAcrossStrategies ==
    (Parsed /\ PartlyLabeled(text)) =>
        /\ path = "cascade"
        /\ result.some =>
              \A f \in required_fields : result.data[f] = Extracted(f, Upper(text))

\* r holds some fields, not all, with the symbol SOLUSDT
SymbolFixed(r) ==
    /\ SomeNotAll(r)
    /\ "symbol" \in DOMAIN r.data
    /\ r.data["symbol"] = W_SOLUSDT

\* the labeled lines gave the OCR-corrected symbol SOLUSDT and no complete
\* record, and the record returned has the symbol the cascade reads
C13_Witness ==
    /\ Parsed
    /\ SymbolFixed(Captured(text))
    /\ result.some
    /\ result.data["symbol"] = W_SOLUSOT

\* C15: a chat holds at most one pending record; an image that parses writes
\* its record over the one the chat had; and once a confirm or a reject
\* callback for a chat with a pending record has been handled, whatever the
\* sends and edits did, the chat has no pending record.
C15_PendingSlotLifecycle ==
    /\ DOMAIN pending_messages \subseteq Chats
    /\ (event.op = "image" /\ event.record > 0)
          => /\ event.chat \in DOMAIN pending_messages
             /\ pending_messages[event.chat].id = event.record
    /\ (event.op \in { "confirm", "reject" } /\ event.had)
          => event.chat \notin DOMAIN pending_messages

\* C16: every stored record is sent to the group at most once, and a callback
\* for a chat with no pending record sends nothing and leaves no entry.
C16_SentAtMostOnce ==
    /\ \A i \in DOMAIN sent : sent[i] <= 1
    /\ (event.op \in { "confirm", "reject" } /\ ~ event.had)
          => /\ event.sends = 0
             /\ event.chat \notin DOMAIN pending_messages


=============================================================================
